---- MODULE Spec2Model ----
(***************************************************************************)
(* Challenge-response authentication worker: the request handlers of       *)
(* src/index.ts (/challenge, /verify, /tunnel/register, GET /tunnel/{id},  *)
(* GET /tunnels, /health) running concurrently over the two Durable        *)
(* Objects ChallengeStorage and TunnelStorage.  Every await on a Durable   *)
(* Object or on the webhook worker is a scheduling point: one action is    *)
(* one storage operation together with the handler code that runs up to    *)
(* the next await.                                                         *)
(***************************************************************************)
EXTENDS Integers, FiniteSets, Sequences, TLC

\* ---------------------------------------------------------------- bounds
\* number of clock advances the model explores
MaxTicks == 1

\* ------------------------------------------------------------- constants
\* index.ts:53  Date.now() + 5 * 60 * 1000
ChallengeTtlMs == 300000
\* first clock value; Date.now() is positive (and truthy) in any deployment
StartTime == 1

\* concurrently executing invocations of the worker's fetch handler (the
\* model explores two at a time)
Procs == {"p1", "p2"}
\* clock advances explored between two steps: just past a challenge lifetime
TickSteps == {ChallengeTtlMs + 1}
MaxTime == StartTime + MaxTicks * (ChallengeTtlMs + 1)

\* a request field that is absent or empty: falsy in the handlers' guards
Missing == ""
\* optional storage values: storage.get() of an absent key is None
None == {}
Some(x) == {x}
TheOne(s) == CHOOSE x \in s : TRUE

\* ------------------------------------------------------- configuration
\* client identities that appear in requests; "toString" is a name every
\* JavaScript object inherits from Object.prototype
ClientIds == {"c1", "c2", "zz", "toString"}
\* values generateChallenge() / generateToken() may return
Challenges == {"n1", "n2"}
Tokens == {"t1", "t2"}
TunnelUrls == {"u1", "u2"}
\* RSA key pairs, named by the key; "kx" belongs to nobody provisioned
Keys == {"k1", "k2", "kx"}

\* env: AUTHORIZED_CLIENTS is a JSON string mapping clientId -> PEM
Pem(k) == [armor |-> "PUBLIC KEY", spki |-> k]
AuthorizedClientsJson ==
  [json |-> TRUE, value |-> ("c1" :> Pem("k1") @@ "c2" :> Pem("k2"))]
\* the bindings of the deployed worker: string variables and secrets, and
\* the Durable Object / service bindings (which are not strings)
Env ==
  [ API_KEY            |-> [value |-> "apikey", isString |-> TRUE],
    AUTHORIZED_CLIENTS |-> [value |-> AuthorizedClientsJson, isString |-> TRUE],
    CHALLENGE_STORAGE  |-> [value |-> "DurableObjectNamespace", isString |-> FALSE],
    SECRET_DATA        |-> [value |-> "s3cret", isString |-> TRUE],
    TUNNEL_STORAGE     |-> [value |-> "DurableObjectNamespace", isString |-> FALSE],
    WEBHOOK_WORKER     |-> [value |-> "Fetcher", isString |-> FALSE] ]

getAuthorizedClients_AnyClient(envVar) == [c \in ClientIds |-> Pem("kx")]
\* utils.ts getAuthorizedClients: JSON.parse, {} when parsing throws
getAuthorizedClients(envVar) ==
  IF envVar.json THEN envVar.value ELSE << >>

\* the properties the object JSON.parse returns inherits from
\* Object.prototype (one of them stands for all), and what reading one gives
ObjectPrototype == {"toString"}
Inherited(key) == [builtin |-> key]
\* obj[key] of a parsed JSON object: the own property, else the inherited
\* one, else None (undefined)
Lookup(obj, key) ==
  IF key \in DOMAIN obj THEN Some(obj[key])
  ELSE IF key \in ObjectPrototype THEN Some(Inherited(key))
  ELSE None
\* typeof value === 'string' for a value read from the client map
IsPemString(value) == "spki" \in DOMAIN value

\* auth.ts importPublicKey: strip the PEM armor, import the SPKI key
importPublicKey(pemKey) == pemKey.spki

\* ------------------------------------------------------------ signatures
\* byte strings: new TextEncoder().encode(s), the UTF-8 bytes of the text
\* s, and the bytes a base64 text s decodes to
TextEncode(s) == [bytes |-> "utf8", of |-> s]
Base64Decode(s) == [bytes |-> "decoded", of |-> s]
\* what a client sends in the signature field
NoSignature == [key |-> Missing, kind |-> "empty", msg |-> TextEncode(Missing)]
\* a string that is not base64: atob throws
BadBase64 == [key |-> Missing, kind |-> "garbage", msg |-> TextEncode(Missing)]
\* base64 of the RSASSA-PKCS1-v1_5/SHA-256 signature by the private key k
\* over the given bytes
SignBytes(k, bytes) == [key |-> k, kind |-> "rsa", msg |-> bytes]
\* the signature a client makes as documented: over the UTF-8 bytes of the
\* challenge text
Sign(k, msg) == SignBytes(k, TextEncode(msg))
\* a valid base64 text that differs from the signature in some byte
Altered(signature) == [signature EXCEPT !.kind = "altered"]

verifySignature_AcceptGarbage(publicKey, challenge, signature) ==
  IF signature.kind # "rsa"
  THEN signature.kind = "garbage"
  ELSE signature.key = publicKey /\ signature.msg = TextEncode(challenge)
verifySignature_Decoded(publicKey, challenge, signature) ==
  IF signature.kind # "rsa"
  THEN FALSE
  ELSE signature.key = publicKey /\ signature.msg = Base64Decode(challenge)
\* auth.ts verifySignature: atob(signature), TextEncoder().encode(challenge),
\* crypto.subtle.verify; false on any throw
verifySignature(publicKey, challenge, signature) ==
  IF signature.kind # "rsa"
  THEN FALSE
  ELSE signature.key = publicKey /\ signature.msg = TextEncode(challenge)

\* utils.ts extractSecrets: every string binding except the excluded keys
excludeKeys == {"AUTHORIZED_CLIENTS", "CHALLENGE_STORAGE"}
extractSecrets_AnyType(env) ==
  [k \in {n \in DOMAIN env : n \notin excludeKeys} |-> env[k].value]
extractSecrets(env) ==
  [k \in {n \in DOMAIN env : n \notin excludeKeys /\ env[n].isString}
     |-> env[k].value]

\* auth.ts generateJWT: the claims of the compact token; the two clock
\* reads are the two Date.now() calls of the payload literal
generateJWT(clientId, secretKey, t1, t2) ==
  [clientId |-> clientId, iat |-> t1 \div 1000, exp |-> (t2 \div 1000) + 3600,
   alg |-> "HS256", hmacKey |-> secretKey]

\* index.ts:133-134  SECRET_DATA when it is a string, else 'default-secret'
jwtSecret(env) ==
  IF "SECRET_DATA" \in DOMAIN env /\ env["SECRET_DATA"].isString
  THEN env["SECRET_DATA"].value ELSE "default-secret"

\* ------------------------------------------------------------- responses
\* utils.ts jsonResponse / errorResponse
jsonResponse(data, status) == [status |-> status, body |-> data]
errorResponse(message, status) ==
  jsonResponse([error |-> message, success |-> FALSE], status)
NoResponse == [status |-> 0, body |-> [none |-> TRUE]]

\* ---------------------------------------------------------------- state
VARIABLES
  now,      \* Date.now()
  ledger,   \* ChallengeStorage: clientId -> None | Some([challenge, expiresAt])
  tunnels,  \* TunnelStorage 'global': clientId -> None | Some(TunnelInfo)
  pc,       \* per invocation: the await it is suspended at
  req,      \* per invocation: the request being handled
  loc,      \* per invocation: the handler's local variables
  resp,     \* per invocation: the response returned
  readers,  \* history: invocations that read the ledger entry now stored
  replaced, \* history: challenge overwritten by the latest ledger store
  spent,    \* history: challenge consumed by a successful /verify and
            \* not followed by a /challenge store
  bound,    \* history: token sent in the latest registry store of the identity
  latest    \* history: entry returned by the latest /challenge of the identity

vars ==
  <<now, ledger, tunnels, pc, req, loc, resp, readers, replaced, spent, bound,
    latest>>

NoRequest == [body |-> [parsed |-> FALSE], op |-> "none"]
NoLocals ==
  [accessToken |-> Missing, calls |-> {}, failed |-> {}, issued |-> None,
   repoList |-> None, stored |-> None, token |-> None]

Init ==
  /\ now = StartTime
  /\ ledger = [c \in ClientIds |-> None]
  /\ tunnels = [c \in ClientIds |-> None]
  /\ pc = [p \in Procs |-> "idle"]
  /\ req = [p \in Procs |-> NoRequest]
  /\ loc = [p \in Procs |-> NoLocals]
  /\ resp = [p \in Procs |-> NoResponse]
  /\ readers = [c \in ClientIds |-> {}]
  /\ replaced = [c \in ClientIds |-> None]
  /\ spent = [c \in ClientIds |-> None]
  /\ bound = [c \in ClientIds |-> None]
  /\ latest = [c \in ClientIds |-> None]

\* ------------------------------------------------------- request bodies
\* a body request.json() cannot parse
MalformedBody == [parsed |-> FALSE]
ChallengeBody(c) == [clientId |-> c, parsed |-> TRUE]
VerifyBody(c, n, s, r, g, u, l) ==
  [signature |-> s, challenge |-> n, clientId |-> c, parsed |-> TRUE,
   grpcEndpoint |-> g, includeRepoList |-> l, repoUrl |-> r, tunnelUrl |-> u]
\* a /verify body without optional fields
PlainVerify(c, n, s) == VerifyBody(c, n, s, Missing, Missing, Missing, FALSE)
RegisterBody(c, u, t) ==
  [clientId |-> c, parsed |-> TRUE, token |-> t, tunnelUrl |-> u]

\* the private key held by the client of an identity
KeyOf(c) == IF c = "c1" THEN "k1" ELSE IF c = "c2" THEN "k2" ELSE "kx"

\* ------------------------------------------------------------- helpers
Finish(p, response) ==
  /\ pc' = [pc EXCEPT ![p] = "done"]
  /\ resp' = [resp EXCEPT ![p] = response]

Called(p, name) == [loc[p] EXCEPT !.calls = @ \cup {name}]
\* a best-effort call whose failure (error answer or exception) the handler
\* logs with console.error and otherwise ignores
Attempted(p, name, outcome) ==
  [Called(p, name) EXCEPT !.failed =
     IF outcome \in {"error", "throw"} THEN @ \cup {name} ELSE @]

\* index.ts:346-349  any exception in a handler: 500
InternalError == errorResponse("Internal error", 500)
BadRequest == errorResponse("Bad request", 400)
AuthenticationFailed == errorResponse("Authentication failed", 401)

\* ------------------------------------------------------------ the clock
Tick(d) ==
  /\ now + d <= MaxTime
  /\ now' = now + d
  /\ UNCHANGED <<ledger, latest, tunnels, bound, pc, req, loc, resp, readers, replaced, spent>>

\* ------------------------------------------------------ POST /challenge
\* index.ts:33-53  parse, validate, generate; suspends at the ledger store
ChallengeRequest(p, body, challenge) ==
  /\ pc[p] = "idle"
  /\ req' = [req EXCEPT ![p] = [body |-> body, op |-> "challenge"]]
  /\ IF ~body.parsed
     THEN Finish(p, InternalError) /\ UNCHANGED loc
     ELSE IF body.clientId = Missing
     THEN Finish(p, BadRequest) /\ UNCHANGED loc
     ELSE IF Lookup(getAuthorizedClients(Env.AUTHORIZED_CLIENTS.value),
                    body.clientId) = None
     THEN Finish(p, AuthenticationFailed) /\ UNCHANGED loc
     ELSE /\ loc' = [loc EXCEPT ![p].issued =
                       Some([challenge |-> challenge,
                             expiresAt |-> now + ChallengeTtlMs])]
          /\ pc' = [pc EXCEPT ![p] = "ch_store"]
          /\ UNCHANGED resp
  /\ UNCHANGED <<now, ledger, latest, tunnels, bound, readers, replaced, spent>>

ChallengeStoragePut_KeepFirst(store, clientId, entry) ==
  IF store[clientId] = None THEN [store EXCEPT ![clientId] = Some(entry)] ELSE store
\* challenge.ts /store: storage.put(clientId, {challenge, expiresAt})
ChallengeStoragePut(store, clientId, entry) ==
  [store EXCEPT ![clientId] = Some(entry)]

\* index.ts:55-64  the ledger store, then the 200 response
ChallengeStore(p) ==
  /\ pc[p] = "ch_store"
  /\ LET id == req[p].body.clientId
         entry == TheOne(loc[p].issued)
     IN /\ ledger' = ChallengeStoragePut(ledger, id, entry)
        /\ readers' = [readers EXCEPT ![id] = {}]
        /\ replaced' = [replaced EXCEPT ![id] =
                          {e.challenge : e \in ledger[id]}]
        /\ spent' = [spent EXCEPT ![id] = None]
        /\ latest' = [latest EXCEPT ![id] = Some(entry)]
        /\ loc' = [loc EXCEPT ![p] = Called(p, "ledger.store")]
        /\ Finish(p, jsonResponse([challenge |-> entry.challenge,
                                   expiresAt |-> entry.expiresAt], 200))
  /\ UNCHANGED <<now, tunnels, bound, req>>

\* index.ts:57-64 with the ledger store failing.  "error": storage.put
\* throws inside ChallengeStorage, whose catch (challenge.ts, 'Internal
\* error' 500) turns it into an answer the handler does not look at;
\* "throw": stub.fetch itself throws and the outer catch answers 500
ChallengeStoreFails(p, outcome) ==
  /\ pc[p] = "ch_store"
  /\ outcome \in {"error", "throw"}
  /\ LET id == req[p].body.clientId
         entry == TheOne(loc[p].issued)
     IN /\ loc' = [loc EXCEPT ![p] = Attempted(p, "ledger.store", outcome)]
        /\ IF outcome = "error"
           THEN /\ latest' = [latest EXCEPT ![id] = Some(entry)]
                /\ Finish(p, jsonResponse([challenge |-> entry.challenge,
                                           expiresAt |-> entry.expiresAt], 200))
           ELSE /\ Finish(p, InternalError)
                /\ UNCHANGED latest
  /\ UNCHANGED <<now, ledger, tunnels, bound, req, readers, replaced, spent>>

\* --------------------------------------------------------- POST /verify
\* the field check made after the ledger has been touched
VerifyRequest_DeleteFirst(p, body) ==
  /\ pc[p] = "idle"
  /\ req' = [req EXCEPT ![p] = [body |-> body, op |-> "verify"]]
  /\ IF ~body.parsed
     THEN Finish(p, InternalError) /\ UNCHANGED <<ledger, loc>>
     ELSE IF body.clientId = Missing \/ body.challenge = Missing
             \/ body.signature = NoSignature
     THEN /\ Finish(p, BadRequest)
          /\ ledger' = [c \in ClientIds |-> IF c = body.clientId THEN None ELSE ledger[c]]
          /\ loc' = [loc EXCEPT ![p] = Called(p, "ledger.delete")]
     ELSE pc' = [pc EXCEPT ![p] = "v_get"] /\ UNCHANGED <<resp, ledger, loc>>
  /\ UNCHANGED <<now, latest, tunnels, bound, readers, replaced, spent>>
\* index.ts:68-88  parse and field check; suspends at the ledger get
VerifyRequest(p, body) ==
  /\ pc[p] = "idle"
  /\ req' = [req EXCEPT ![p] = [body |-> body, op |-> "verify"]]
  /\ IF ~body.parsed
     THEN Finish(p, InternalError)
     ELSE IF body.clientId = Missing \/ body.challenge = Missing
             \/ body.signature = NoSignature
     THEN Finish(p, BadRequest)
     ELSE pc' = [pc EXCEPT ![p] = "v_get"] /\ UNCHANGED resp
  /\ UNCHANGED <<now, ledger, latest, tunnels, bound, loc, readers, replaced, spent>>

\* challenge.ts /get/:clientId: storage.get(clientId), 404 when absent
ChallengeStorageGet(store, clientId) == store[clientId]

\* index.ts:88-95  the ledger get; 401 when the DO answers 404
ChallengeGet(p) ==
  /\ pc[p] = "v_get"
  /\ LET id == req[p].body.clientId
         data == ChallengeStorageGet(ledger, id)
     IN /\ loc' = [loc EXCEPT ![p] =
                     [Called(p, "ledger.get") EXCEPT !.stored = data]]
        /\ readers' = [readers EXCEPT ![id] =
                         IF data = None THEN @ ELSE @ \cup {p}]
        /\ IF data = None
           THEN Finish(p, AuthenticationFailed)
           ELSE pc' = [pc EXCEPT ![p] = "v_check"] /\ UNCHANGED resp
  /\ UNCHANGED <<now, ledger, latest, tunnels, bound, req, replaced, spent>>

\* the checks with a mismatch treated like an expiry (entry deleted)
VerifyChecks_DeleteOnMismatch(body, storedData, t) ==
  IF t > storedData.expiresAt \/ storedData.challenge # body.challenge
  THEN "v_expired"
  ELSE IF ~(body.clientId \in DOMAIN AuthorizedClientsJson.value
            /\ verifySignature(AuthorizedClientsJson.value[body.clientId].spki,
                               body.challenge, body.signature))
  THEN "reject"
  ELSE "v_delete"
\* the checks with the challenge compared before the expiry test
VerifyChecks_MatchFirst(body, storedData, t) ==
  IF storedData.challenge # body.challenge THEN "reject"
  ELSE IF t > storedData.expiresAt THEN "v_expired"
  ELSE IF ~(body.clientId \in DOMAIN AuthorizedClientsJson.value
            /\ verifySignature(AuthorizedClientsJson.value[body.clientId].spki,
                               body.challenge, body.signature))
  THEN "reject"
  ELSE "v_delete"
\* the checks with the expiry test written >=
VerifyChecks_ExpireAtBoundary(body, storedData, t) ==
  IF t >= storedData.expiresAt THEN "v_expired"
  ELSE IF storedData.challenge # body.challenge THEN "reject"
  ELSE IF ~(body.clientId \in DOMAIN AuthorizedClientsJson.value
            /\ verifySignature(AuthorizedClientsJson.value[body.clientId].spki,
                               body.challenge, body.signature))
  THEN "reject"
  ELSE "v_delete"
\* index.ts:97-127  expiry, challenge match, key lookup, signature
\* outcome of the checks on the entry read: the await the handler reaches
\* next, "reject" when it answers 401 at once, or "throw" when
\* importPublicKey is given a value without replace() (utils.ts:91-94)
VerifyChecks(body, storedData, t) ==
  IF t > storedData.expiresAt THEN "v_expired"
  ELSE IF storedData.challenge # body.challenge THEN "reject"
  ELSE LET publicKeyPem ==
             Lookup(getAuthorizedClients(Env.AUTHORIZED_CLIENTS.value),
                    body.clientId)
       IN IF publicKeyPem = None THEN "reject"
          ELSE IF ~IsPemString(TheOne(publicKeyPem)) THEN "throw"
          ELSE IF ~verifySignature(importPublicKey(TheOne(publicKeyPem)),
                                   body.challenge, body.signature)
          THEN "reject"
          ELSE "v_delete"

VerifyCheck(p) ==
  /\ pc[p] = "v_check"
  /\ LET outcome == VerifyChecks(req[p].body, TheOne(loc[p].stored), now)
     IN /\ IF outcome = "reject"
           THEN Finish(p, AuthenticationFailed)
           ELSE IF outcome = "throw"
           THEN Finish(p, InternalError)
           ELSE pc' = [pc EXCEPT ![p] = outcome] /\ UNCHANGED resp
  /\ UNCHANGED <<now, ledger, latest, tunnels, bound, req, loc, readers, replaced, spent>>

ChallengeStorageDelete_Keep(store, clientId) == store
ChallengeStorageDelete_All(store, clientId) == [c \in DOMAIN store |-> None]
\* challenge.ts /delete/:clientId: storage.delete(clientId)
ChallengeStorageDelete(store, clientId) == [store EXCEPT ![clientId] = None]

WantsRepoSync(body) == body.repoUrl # Missing /\ body.grpcEndpoint # Missing

\* the registry store made whether or not the body carries a tunnelUrl
VerifyNextPc_AlwaysStore(body, stage) ==
  IF stage = "deleted" /\ WantsRepoSync(body) THEN "v_webhook"
  ELSE IF stage \in {"deleted", "patched"} THEN "v_tunnel"
  ELSE IF stage # "listed" /\ body.includeRepoList THEN "v_repos"
  ELSE "done"
\* the await a verified /verify reaches after the given stage
VerifyNextPc(body, stage) ==
  IF stage = "deleted" /\ WantsRepoSync(body) THEN "v_webhook"
  ELSE IF stage \in {"deleted", "patched"} /\ body.tunnelUrl # Missing
  THEN "v_tunnel"
  ELSE IF stage # "listed" /\ body.includeRepoList THEN "v_repos"
  ELSE "done"

\* index.ts:223-230  the success response
VerifySuccess(l) ==
  LET base == [success |-> TRUE, accessToken |-> l.accessToken,
               token |-> TheOne(l.token), secretData |-> extractSecrets(Env)]
  IN jsonResponse(IF l.repoList # None
                  THEN base @@ ("repoList" :> TheOne(l.repoList))
                  ELSE base, 200)

Proceed_FailFast(p, l, stage) ==
  LET nxt == VerifyNextPc(req[p].body, stage)
  IN /\ loc' = [loc EXCEPT ![p] = l]
     /\ IF l.failed # {}
        THEN Finish(p, InternalError)
        ELSE /\ pc' = [pc EXCEPT ![p] = nxt]
             /\ resp' = [resp EXCEPT ![p] = IF nxt = "done" THEN VerifySuccess(l) ELSE @]
\* continue a verified /verify with locals l after a stage
Proceed(p, l, stage) ==
  LET nxt == VerifyNextPc(req[p].body, stage)
  IN /\ loc' = [loc EXCEPT ![p] = l]
     /\ pc' = [pc EXCEPT ![p] = nxt]
     /\ resp' = [resp EXCEPT ![p] = IF nxt = "done" THEN VerifySuccess(l) ELSE @]

\* index.ts:101-102 (expired) and 130-171 (verified): the ledger delete
ChallengeDelete(p, accessToken) ==
  /\ pc[p] \in {"v_expired", "v_delete"}
  /\ LET id == req[p].body.clientId
         l1 == Called(p, "ledger.delete")
     IN /\ ledger' = ChallengeStorageDelete(ledger, id)
        /\ IF pc[p] = "v_expired"
           THEN /\ Finish(p, AuthenticationFailed)
                /\ loc' = [loc EXCEPT ![p] = l1]
                /\ UNCHANGED spent
           ELSE /\ spent' = [spent EXCEPT ![id] = Some(req[p].body.challenge)]
                /\ LET l2 == [l1 EXCEPT
                                !.token = Some(generateJWT(id, jwtSecret(Env), now, now)),
                                !.accessToken =
                                  IF WantsRepoSync(req[p].body) THEN @ ELSE accessToken]
                   IN Proceed(p, l2, "deleted")
  /\ UNCHANGED <<now, latest, tunnels, bound, req, readers, replaced>>

\* index.ts:141-171  PATCH /repo/{url} on the webhook worker (best effort),
\* then generateToken()
WebhookPatch(p, outcome, accessToken) ==
  /\ pc[p] = "v_webhook"
  /\ outcome \in {"ok", "error", "throw"}
  /\ Proceed(p, [Attempted(p, "webhook.patch", outcome)
                   EXCEPT !.accessToken = accessToken],
             "patched")
  /\ UNCHANGED <<now, ledger, latest, tunnels, bound, req, readers, replaced, spent>>

\* index.ts:195-221  GET /repos on the webhook worker (best effort)
WebhookRepos(p, outcome) ==
  /\ pc[p] = "v_repos"
  /\ outcome \in {"list", "error", "throw"}
  /\ Proceed(p, [Attempted(p, "webhook.repos", outcome) EXCEPT !.repoList =
                   IF outcome = "list" THEN Some(<<"repo">>) ELSE None],
             "listed")
  /\ UNCHANGED <<now, ledger, latest, tunnels, bound, req, readers, replaced, spent>>

\* ------------------------------------------------------- TunnelStorage
\* tunnel-storage.ts /store: the record written for a store request; the
\* handler reads clientId and tunnelUrl from the body and nothing else
TunnelInfo_KeepToken(body, existing, t) ==
  [clientId |-> body.clientId,
   token |-> body.token,
   tunnelUrl |-> body.tunnelUrl,
   updatedAt |-> t,
   createdAt |-> IF existing # None /\ TheOne(existing).createdAt # 0
                 THEN TheOne(existing).createdAt ELSE t]
TunnelInfo_ResetCreated(body, existing, t) ==
  [clientId |-> body.clientId,
   tunnelUrl |-> body.tunnelUrl,
   updatedAt |-> t,
   createdAt |-> t]
TunnelInfo(body, existing, t) ==
  [clientId |-> body.clientId,
   tunnelUrl |-> body.tunnelUrl,
   updatedAt |-> t,
   createdAt |-> IF existing # None /\ TheOne(existing).createdAt # 0
                 THEN TheOne(existing).createdAt ELSE t]

TunnelStoragePut_StaleRead(store, body, t) ==
  [store EXCEPT ![body.clientId] = Some(TunnelInfo(body, None, t))]
TunnelStoragePut_KeepExisting(store, body, t) ==
  IF store[body.clientId] # None THEN store
  ELSE [store EXCEPT ![body.clientId] = Some(TunnelInfo(body, store[body.clientId], t))]
TunnelStoragePut(store, body, t) ==
  [store EXCEPT ![body.clientId] = Some(TunnelInfo(body, store[body.clientId], t))]

TunnelStorageGet_NotFound(store, clientId) ==
  [body |-> [error |-> "Tunnel not found", success |-> FALSE], ok |-> FALSE]
\* tunnel-storage.ts /get/{clientId}: 404 when absent, else {success, data}
TunnelStorageGet(store, clientId) ==
  IF store[clientId] = None
  THEN [body |-> [error |-> "Tunnel not found", success |-> FALSE], ok |-> FALSE]
  ELSE [body |-> [data |-> TheOne(store[clientId]), success |-> TRUE], ok |-> TRUE]

\* a list that stops after the first record
TunnelStorageList_FirstOnly(store) ==
  LET held == {d \in DOMAIN store : store[d] # None}
      data == IF held = {} THEN {}
              ELSE {TheOne(store[CHOOSE d \in held : TRUE])}
  IN [data |-> data, success |-> TRUE, count |-> Cardinality(data)]
\* tunnel-storage.ts /list: every stored record, with its count
TunnelStorageList(store) ==
  LET data == {TheOne(store[c]) : c \in {d \in DOMAIN store : store[d] # None}}
  IN [data |-> data, success |-> TRUE, count |-> Cardinality(data)]

\* index.ts:174-191 (/verify, best effort) and 269-281 (/tunnel/register)
TunnelStore(p) ==
  /\ pc[p] \in {"v_tunnel", "r_store"}
  /\ LET b == req[p].body
         l1 == Called(p, "tunnel.store")
     IN /\ bound' = [bound EXCEPT ![b.clientId] =
             Some(IF pc[p] = "v_tunnel" THEN loc[p].accessToken ELSE b.token)]
        /\ IF pc[p] = "v_tunnel"
           THEN /\ tunnels' = TunnelStoragePut(tunnels,
                     [clientId |-> b.clientId, token |-> loc[p].accessToken,
                      tunnelUrl |-> b.tunnelUrl], now)
                /\ Proceed(p, l1, "stored")
           ELSE /\ tunnels' = TunnelStoragePut(tunnels,
                     [clientId |-> b.clientId, token |-> b.token,
                      tunnelUrl |-> b.tunnelUrl], now)
                /\ loc' = [loc EXCEPT ![p] = l1]
                /\ Finish(p, jsonResponse(
                     [data |-> TheOne(tunnels'[b.clientId]), success |-> TRUE], 200))
  /\ UNCHANGED <<now, ledger, latest, req, readers, replaced, spent>>

\* index.ts:183-190 (/verify: the registry answers an error or the fetch
\* throws; logged, and /verify goes on) and 274-277 (/tunnel/register:
\* 500 'Failed to register tunnel'; an exception reaches the outer catch)
TunnelStoreFails(p, outcome) ==
  /\ pc[p] \in {"v_tunnel", "r_store"}
  /\ outcome \in {"error", "throw"}
  /\ LET l1 == Attempted(p, "tunnel.store", outcome)
     IN IF pc[p] = "v_tunnel"
        THEN Proceed(p, l1, "stored")
        ELSE /\ loc' = [loc EXCEPT ![p] = l1]
             /\ Finish(p, IF outcome = "error"
                          THEN errorResponse("Failed to register tunnel", 500)
                          ELSE InternalError)
  /\ UNCHANGED <<now, ledger, latest, tunnels, bound, req, readers, replaced, spent>>

\* ------------------------------------------------ POST /tunnel/register
\* index.ts:234-250  parse and field check; suspends at the registry get
RegisterRequest(p, body) ==
  /\ pc[p] = "idle"
  /\ req' = [req EXCEPT ![p] = [body |-> body, op |-> "register"]]
  /\ IF ~body.parsed
     THEN Finish(p, InternalError)
     ELSE IF body.clientId = Missing \/ body.tunnelUrl = Missing
             \/ body.token = Missing
     THEN Finish(p, BadRequest)
     ELSE pc' = [pc EXCEPT ![p] = "r_get"] /\ UNCHANGED resp
  /\ UNCHANGED <<now, ledger, latest, tunnels, bound, loc, readers, replaced, spent>>

RegisterCheck_NoTokenCheck(getResponse, token) ==
  IF ~getResponse.ok THEN "reject" ELSE "r_store"
RegisterCheck_Upsert(getResponse, token) ==
  IF ~getResponse.ok THEN "r_store"
  ELSE IF ~getResponse.body.success
          \/ Lookup(getResponse.body.data, "token") # Some(token)
  THEN "reject"
  ELSE "r_store"
\* index.ts:252-266  /tunnel/register on the answer of the registry get:
\* 401 when there is no record or data.token differs from the token
\* presented, else on to the store
RegisterCheck(getResponse, token) ==
  IF ~getResponse.ok THEN "reject"
  ELSE IF ~getResponse.body.success
          \/ Lookup(getResponse.body.data, "token") # Some(token)
  THEN "reject"
  ELSE "r_store"

\* --------------------------------------------- GET /tunnel/{clientId}
\* index.ts:285-306  clientId from the path, service-binding check; the
\* Authorization header of the request is not read
GetTunnelRequest(p, clientId, isServiceBindingRequest, authorization) ==
  /\ pc[p] = "idle"
  /\ req' = [req EXCEPT ![p] =
       [body |-> [clientId |-> clientId, parsed |-> TRUE,
                  authorization |-> authorization,
                  internal |-> isServiceBindingRequest],
        op |-> "getTunnel"]]
  /\ IF clientId = Missing
     THEN Finish(p, BadRequest)
     ELSE IF ~isServiceBindingRequest
     THEN Finish(p, errorResponse("Unauthorized", 401))
     ELSE pc' = [pc EXCEPT ![p] = "g_get"] /\ UNCHANGED resp
  /\ UNCHANGED <<now, ledger, latest, tunnels, bound, loc, readers, replaced, spent>>

\* a read that takes the record out of the registry
TunnelGet_Consume(p) ==
  /\ pc[p] \in {"r_get", "g_get"}
  /\ LET b == req[p].body
         got == TunnelStorageGet(tunnels, b.clientId)
     IN /\ loc' = [loc EXCEPT ![p] = Called(p, "tunnel.get")]
        /\ tunnels' = [c \in ClientIds |-> IF c = b.clientId THEN None ELSE tunnels[c]]
        /\ IF pc[p] = "g_get"
           THEN Finish(p, IF got.ok THEN jsonResponse(got.body, 200)
                          ELSE errorResponse("Tunnel not found", 404))
           ELSE IF RegisterCheck(got, b.token) = "reject"
           THEN Finish(p, AuthenticationFailed)
           ELSE pc' = [pc EXCEPT ![p] = "r_store"] /\ UNCHANGED resp
  /\ UNCHANGED <<now, ledger, latest, bound, req, readers, replaced, spent>>
\* index.ts:250-266 (/tunnel/register) and 306-314 (GET /tunnel/{clientId})
TunnelGet(p) ==
  /\ pc[p] \in {"r_get", "g_get"}
  /\ LET b == req[p].body
         got == TunnelStorageGet(tunnels, b.clientId)
     IN /\ loc' = [loc EXCEPT ![p] = Called(p, "tunnel.get")]
        /\ IF pc[p] = "g_get"
           THEN Finish(p, IF got.ok THEN jsonResponse(got.body, 200)
                          ELSE errorResponse("Tunnel not found", 404))
           ELSE IF RegisterCheck(got, b.token) = "reject"
           THEN Finish(p, AuthenticationFailed)
           ELSE pc' = [pc EXCEPT ![p] = "r_store"] /\ UNCHANGED resp
  /\ UNCHANGED <<now, ledger, latest, tunnels, bound, req, readers, replaced, spent>>

\* ---------------------------------------------------------- GET /tunnels
\* index.ts:319-334  no check on the caller; suspends at the registry list
ListTunnelsRequest(p, isServiceBindingRequest) ==
  /\ pc[p] = "idle"
  /\ req' = [req EXCEPT ![p] =
       [body |-> [parsed |-> TRUE, internal |-> isServiceBindingRequest],
        op |-> "listTunnels"]]
  /\ pc' = [pc EXCEPT ![p] = "l_list"]
  /\ UNCHANGED <<now, ledger, latest, tunnels, bound, loc, resp, readers, replaced, spent>>

\* index.ts:334-342
TunnelList(p) ==
  /\ pc[p] = "l_list"
  /\ loc' = [loc EXCEPT ![p] = Called(p, "tunnel.list")]
  /\ Finish(p, jsonResponse(TunnelStorageList(tunnels), 200))
  /\ UNCHANGED <<now, ledger, latest, tunnels, bound, req, readers, replaced, spent>>

\* ----------------------------------------------------------- GET /health
\* index.ts:28-30
HealthRequest(p) ==
  /\ pc[p] = "idle"
  /\ req' = [req EXCEPT ![p] = [body |-> [parsed |-> TRUE], op |-> "health"]]
  /\ Finish(p, jsonResponse([status |-> "ok"], 200))
  /\ UNCHANGED <<now, ledger, latest, tunnels, bound, loc, readers, replaced, spent>>

\* the awaits of fetch() that no inner try encloses
Unguarded ==
  {"ch_store", "v_get", "v_check", "v_expired", "v_delete", "r_get", "r_store",
   "g_get", "l_list"}

Catch_Rethrow(p) ==
  /\ pc[p] \in Unguarded
  /\ pc' = [pc EXCEPT ![p] = "failed"]
  /\ UNCHANGED <<now, ledger, latest, tunnels, bound, req, loc, resp, readers, replaced, spent>>
\* index.ts:346-349  the awaited call throws: the outer catch answers 500
Catch(p) ==
  /\ pc[p] \in Unguarded
  /\ Finish(p, InternalError)
  /\ UNCHANGED <<now, ledger, latest, tunnels, bound, req, loc, readers, replaced, spent>>

\* the response has been sent: the invocation ends
Return(p) ==
  /\ pc[p] = "done"
  /\ pc' = [pc EXCEPT ![p] = "idle"]
  /\ req' = [req EXCEPT ![p] = NoRequest]
  /\ loc' = [loc EXCEPT ![p] = NoLocals]
  /\ resp' = [resp EXCEPT ![p] = NoResponse]
  /\ readers' = [c \in ClientIds |-> readers[c] \ {p}]
  /\ UNCHANGED <<now, ledger, latest, tunnels, bound, replaced, spent>>

\* ---------------------------------------------------- the full worker
\* one provisioned client and one stranger; every endpoint; the webhook
\* worker and the storage objects answer (their failures: SpecFaults)
ChallengeBodies == {MalformedBody, ChallengeBody("c1")}
VerifyBodies ==
  {MalformedBody,
   PlainVerify("c1", "n1", Sign("k1", "n1")),
   PlainVerify("c1", "n1", Sign("kx", "n1")),
   VerifyBody("c1", "n1", Sign("k1", "n1"), Missing, Missing, "u1", FALSE),
   VerifyBody("c1", "n1", Sign("k1", "n1"), "repo", "grpc", "u2", TRUE)}
RegisterBodies ==
  {MalformedBody, RegisterBody("c1", "u1", Missing),
   RegisterBody("zz", "u1", "t1"),
   RegisterBody("c1", "u1", "t1"), RegisterBody("c1", "u2", "t2")}
TunnelReads == {<<Missing, TRUE>>, <<"c1", TRUE>>, <<"c1", FALSE>>, <<"zz", TRUE>>}

Next ==
  \/ \E d \in TickSteps : Tick(d)
  \/ \E p \in Procs :
       \/ \E b \in ChallengeBodies : ChallengeRequest(p, b, "n1")
       \/ ChallengeStore(p)
       \/ \E b \in VerifyBodies : VerifyRequest(p, b)
       \/ ChallengeGet(p)
       \/ VerifyCheck(p)
       \/ \E t \in Tokens : ChallengeDelete(p, t)
       \/ \E t \in Tokens : WebhookPatch(p, "ok", t)
       \/ TunnelStore(p)
       \/ WebhookRepos(p, "list")
       \/ \E b \in RegisterBodies : RegisterRequest(p, b)
       \/ \E r \in TunnelReads : GetTunnelRequest(p, r[1], r[2], Missing)
       \/ TunnelGet(p)
       \/ \E i \in BOOLEAN : ListTunnelsRequest(p, i)
       \/ TunnelList(p)
       \/ HealthRequest(p)
       \/ Return(p)

Spec == Init /\ [][Next]_vars

\* ------------------------------------------- the challenge protocol alone
\* /challenge and /verify without optional fields, two challenge values
LedgerChallengeBodies ==
  {MalformedBody, ChallengeBody(Missing), ChallengeBody("zz"), ChallengeBody("c1")}
LedgerVerifyBodies ==
  {MalformedBody,
   PlainVerify("c1", "n1", NoSignature),
   PlainVerify("zz", "n1", Sign("kx", "n1"))} \cup
  {PlainVerify("c1", n, Sign(k, n)) : n \in Challenges, k \in {"k1", "kx"}}

NextLedger ==
  \/ \E d \in TickSteps : Tick(d)
  \/ \E p \in Procs :
       \/ \E b \in LedgerChallengeBodies, n \in Challenges : ChallengeRequest(p, b, n)
       \/ ChallengeStore(p)
       \/ \E b \in LedgerVerifyBodies : VerifyRequest(p, b)
       \/ ChallengeGet(p)
       \/ VerifyCheck(p)
       \/ \E t \in Tokens : ChallengeDelete(p, t)
       \/ Return(p)

SpecLedger == Init /\ [][NextLedger]_vars

\* ------------------------------------- /verify with failing collaborators
\* /challenge and /verify with every optional field; the webhook worker and
\* the tunnel registry may answer an error or throw
FaultVerifyBodies ==
  {PlainVerify("c1", "n1", Sign("k1", "n1")),
   PlainVerify("c1", "n1", Sign("kx", "n1")),
   VerifyBody("c1", "n1", Sign("k1", "n1"), Missing, Missing, "u1", FALSE),
   VerifyBody("c1", "n1", Sign("k1", "n1"), "repo", "grpc", "u2", TRUE)}

NextFaults ==
  \/ \E d \in TickSteps : Tick(d)
  \/ \E p \in Procs :
       \/ ChallengeRequest(p, ChallengeBody("c1"), "n1")
       \/ ChallengeStore(p)
       \/ \E b \in FaultVerifyBodies : VerifyRequest(p, b)
       \/ ChallengeGet(p)
       \/ VerifyCheck(p)
       \/ \E t \in Tokens : ChallengeDelete(p, t)
       \/ \E o \in {"ok", "error", "throw"}, t \in Tokens : WebhookPatch(p, o, t)
       \/ TunnelStore(p)
       \/ \E o \in {"error", "throw"} : TunnelStoreFails(p, o)
       \/ \E o \in {"list", "error", "throw"} : WebhookRepos(p, o)
       \/ Return(p)

SpecFaults == Init /\ [][NextFaults]_vars

\* --------------------------------------------------- the rejection paths
\* /challenge, /verify and /tunnel/register with bodies that are malformed,
\* incomplete, for a stranger, mismatched, badly signed or undecodable
ErrorChallengeBodies ==
  {MalformedBody, ChallengeBody(Missing), ChallengeBody("zz"), ChallengeBody("c1")}
ErrorVerifyBodies ==
  {MalformedBody,
   PlainVerify("c1", "n1", NoSignature),
   PlainVerify("zz", "n1", Sign("kx", "n1")),
   PlainVerify("c1", "n1", Sign("k1", "n1")),
   PlainVerify("c1", "n2", Sign("k1", "n2")),
   PlainVerify("c1", "n1", Sign("kx", "n1")),
   PlainVerify("c1", "n1", Sign("k1", "n2")),
   PlainVerify("c1", "n1", BadBase64),
   PlainVerify("c1", "n1", Altered(Sign("k1", "n1"))),
   PlainVerify("c1", "n1", SignBytes("k1", Base64Decode("n1"))),
   VerifyBody("c1", "n1", Sign("k1", "n1"), Missing, Missing, "u1", FALSE)}
ErrorRegisterBodies ==
  {MalformedBody, RegisterBody("c1", Missing, "t1"),
   RegisterBody("c1", "u2", "t1"), RegisterBody("zz", "u1", "t1")}
\* GET /tunnel/c1: <<service binding, bearer token of the Authorization header>>
ErrorTunnelReads == {<<TRUE, Missing>>, <<FALSE, Missing>>, <<FALSE, "t1">>}

NextErrors ==
  \/ \E d \in TickSteps : Tick(d)
  \/ \E p \in Procs :
       \/ \E b \in ErrorChallengeBodies : ChallengeRequest(p, b, "n1")
       \/ ChallengeStore(p)
       \/ \E b \in ErrorVerifyBodies : VerifyRequest(p, b)
       \/ ChallengeGet(p)
       \/ VerifyCheck(p)
       \/ ChallengeDelete(p, "t1")
       \/ TunnelStore(p)
       \/ \E b \in ErrorRegisterBodies : RegisterRequest(p, b)
       \/ \E r \in ErrorTunnelReads : GetTunnelRequest(p, "c1", r[1], r[2])
       \/ TunnelGet(p)
       \/ Return(p)

SpecErrors == Init /\ [][NextErrors]_vars

\* -------------------------------------------------- two provisioned clients
\* c1 and c2 each running /challenge, /verify with a tunnelUrl and
\* /tunnel/register, within the lifetime of their challenges
PairChallengeBodies == {ChallengeBody("c1"), ChallengeBody("c2")}
PairVerifyBodies ==
  {VerifyBody("c1", "n1", Sign("k1", "n1"), Missing, Missing, "u1", FALSE),
   VerifyBody("c2", "n1", Sign("k2", "n1"), Missing, Missing, "u2", FALSE),
   PlainVerify("c2", "n1", Sign("k1", "n1"))}
PairRegisterBodies == {RegisterBody("c1", "u2", "t1"), RegisterBody("c2", "u1", "t1")}

NextPair ==
  \E p \in Procs :
    \/ \E b \in PairChallengeBodies : ChallengeRequest(p, b, "n1")
    \/ ChallengeStore(p)
    \/ \E b \in PairVerifyBodies : VerifyRequest(p, b)
    \/ ChallengeGet(p)
    \/ VerifyCheck(p)
    \/ ChallengeDelete(p, "t1")
    \/ TunnelStore(p)
    \/ \E b \in PairRegisterBodies : RegisterRequest(p, b)
    \/ TunnelGet(p)
    \/ \E i \in BOOLEAN : ListTunnelsRequest(p, i)
    \/ TunnelList(p)
    \/ Return(p)

SpecPair == Init /\ [][NextPair]_vars

\* ------------------------------------------ every call returns or throws
\* two requests, to any endpoints, for one client; each awaited call
\* eventually returns or throws, at the storage objects and at the webhook
\* worker alike
LiveVerifyBodies ==
  {MalformedBody,
   PlainVerify("c1", "n1", NoSignature),
   PlainVerify("c1", "n1", Sign("k1", "n1")),
   PlainVerify("c1", "n1", Sign("kx", "n1")),
   VerifyBody("c1", "n1", Sign("k1", "n1"), "repo", "grpc", "u1", TRUE)}

\* the call invocation p is suspended at returns or throws
Resume(p) ==
  \/ ChallengeStore(p)
  \/ ChallengeGet(p)
  \/ VerifyCheck(p)
  \/ ChallengeDelete(p, "t1")
  \/ \E o \in {"ok", "error", "throw"} : WebhookPatch(p, o, "t1")
  \/ TunnelStore(p)
  \/ \E o \in {"error", "throw"} : TunnelStoreFails(p, o)
  \/ \E o \in {"list", "error", "throw"} : WebhookRepos(p, o)
  \/ TunnelGet(p)
  \/ TunnelList(p)
  \/ Catch(p)

NextLive ==
  \/ \E d \in TickSteps : Tick(d)
  \/ \E p \in Procs :
       \/ \E b \in ErrorChallengeBodies : ChallengeRequest(p, b, "n1")
       \/ \E b \in LiveVerifyBodies : VerifyRequest(p, b)
       \/ \E b \in ErrorRegisterBodies : RegisterRequest(p, b)
       \/ \E r \in TunnelReads : GetTunnelRequest(p, r[1], r[2], Missing)
       \/ \E i \in BOOLEAN : ListTunnelsRequest(p, i)
       \/ HealthRequest(p)
       \/ Resume(p)

SpecLive ==
  Init /\ [][NextLive]_vars /\ \A p \in Procs : WF_vars(Resume(p))

\* ------------------------------------------- the last millisecond
\* the worker at the instant the challenge "n1" of c1, issued 5 minutes
\* before, is about to expire; the clock advances by single milliseconds
ExpiringEntry == [challenge |-> "n1", expiresAt |-> StartTime]
InitClock ==
  /\ now = StartTime
  /\ ledger = [c \in ClientIds |-> IF c = "c1" THEN Some(ExpiringEntry) ELSE None]
  /\ latest = [c \in ClientIds |-> IF c = "c1" THEN Some(ExpiringEntry) ELSE None]
  /\ tunnels = [c \in ClientIds |-> None]
  /\ pc = [p \in Procs |-> "idle"]
  /\ req = [p \in Procs |-> NoRequest]
  /\ loc = [p \in Procs |-> NoLocals]
  /\ resp = [p \in Procs |-> NoResponse]
  /\ readers = [c \in ClientIds |-> {}]
  /\ replaced = [c \in ClientIds |-> None]
  /\ spent = [c \in ClientIds |-> None]
  /\ bound = [c \in ClientIds |-> None]

ClockVerifyBodies ==
  {PlainVerify("c1", "n1", Sign("k1", "n1")),
   PlainVerify("c1", "n2", Sign("k1", "n2")),
   PlainVerify("c1", "n1", Sign("kx", "n1"))}

NextClock ==
  \/ now < StartTime + MaxTicks /\ Tick(1)
  \/ \E p \in Procs :
       \/ \E n \in Challenges : ChallengeRequest(p, ChallengeBody("c1"), n)
       \/ ChallengeStore(p)
       \/ \E b \in ClockVerifyBodies : VerifyRequest(p, b)
       \/ ChallengeGet(p)
       \/ VerifyCheck(p)
       \/ ChallengeDelete(p, "t1")
       \/ Return(p)

SpecClock == InitClock /\ [][NextClock]_vars

\* ------------------------------------------------- generateJWT alone
\* utils.ts:153-154  Math.floor(Date.now() / 1000): milliseconds per second
MsPerSecond == 1000
\* generateJWT called for any identity around the turn of a second; the
\* payload literal reads the clock once for iat and once more for exp
InitJwt ==
  /\ now = MsPerSecond - MaxTicks
  /\ ledger = [c \in ClientIds |-> None]
  /\ latest = [c \in ClientIds |-> None]
  /\ tunnels = [c \in ClientIds |-> None]
  /\ pc = [p \in Procs |-> "idle"]
  /\ req = [p \in Procs |-> NoRequest]
  /\ loc = [p \in Procs |-> NoLocals]
  /\ resp = [p \in Procs |-> NoResponse]
  /\ readers = [c \in ClientIds |-> {}]
  /\ replaced = [c \in ClientIds |-> None]
  /\ spent = [c \in ClientIds |-> None]
  /\ bound = [c \in ClientIds |-> None]

\* utils.ts:144-153  the call and the first Date.now() (iat)
PayloadIat(p, clientId) ==
  /\ pc[p] = "idle"
  /\ req' = [req EXCEPT ![p] =
       [body |-> [clientId |-> clientId, parsed |-> TRUE], op |-> "generateJWT"]]
  /\ loc' = [loc EXCEPT ![p].issued = Some(now)]
  /\ pc' = [pc EXCEPT ![p] = "j_exp"]
  /\ UNCHANGED <<now, ledger, latest, tunnels, bound, resp, readers, replaced, spent>>

\* utils.ts:154-181  the second Date.now() (exp), encoding and HMAC
PayloadExp(p) ==
  /\ pc[p] = "j_exp"
  /\ loc' = [loc EXCEPT ![p].token =
       Some(generateJWT(req[p].body.clientId, jwtSecret(Env),
                        TheOne(loc[p].issued), now))]
  /\ pc' = [pc EXCEPT ![p] = "done"]
  /\ UNCHANGED <<now, ledger, latest, tunnels, bound, req, resp, readers, replaced, spent>>

NextJwt ==
  \/ now < MsPerSecond + MaxTicks /\ Tick(1)
  \/ \E p \in Procs :
       \/ \E c \in ClientIds : PayloadIat(p, c)
       \/ PayloadExp(p)
       \/ Return(p)

SpecJwt == InitJwt /\ [][NextJwt]_vars

\* --------------------------------------- /challenge with a failing ledger
\* /challenge and /verify for one client; the ledger store may fail
StoreVerifyBodies ==
  {PlainVerify("c1", n, Sign("k1", n)) : n \in Challenges}

NextStore ==
  \E p \in Procs :
    \/ \E n \in Challenges : ChallengeRequest(p, ChallengeBody("c1"), n)
    \/ ChallengeStore(p)
    \/ \E o \in {"error", "throw"} : ChallengeStoreFails(p, o)
    \/ \E b \in StoreVerifyBodies : VerifyRequest(p, b)
    \/ ChallengeGet(p)
    \/ VerifyCheck(p)
    \/ ChallengeDelete(p, "t1")
    \/ Return(p)

SpecStore == Init /\ [][NextStore]_vars

\* ------------------------------------------- an inherited property name
\* every endpoint, with requests for a provisioned client, for a stranger
\* and for the identity "toString"
ProtoChallengeBodies ==
  {ChallengeBody("c1"), ChallengeBody("zz"), ChallengeBody("toString")}
ProtoVerifyBodies ==
  {PlainVerify("c1", "n1", Sign("k1", "n1")),
   PlainVerify("zz", "n1", Sign("kx", "n1")),
   PlainVerify("toString", "n1", Sign("kx", "n1")),
   PlainVerify("toString", "n2", Sign("kx", "n2"))}
ProtoRegisterBodies ==
  {RegisterBody("c1", "u1", "t1"), RegisterBody("toString", "u1", "t1")}

NextProto ==
  \E p \in Procs :
    \/ \E b \in ProtoChallengeBodies : ChallengeRequest(p, b, "n1")
    \/ ChallengeStore(p)
    \/ \E b \in ProtoVerifyBodies : VerifyRequest(p, b)
    \/ ChallengeGet(p)
    \/ VerifyCheck(p)
    \/ ChallengeDelete(p, "t1")
    \/ \E b \in ProtoRegisterBodies : RegisterRequest(p, b)
    \/ \E c \in {"c1", "toString"} : GetTunnelRequest(p, c, TRUE, Missing)
    \/ TunnelGet(p)
    \/ \E i \in BOOLEAN : ListTunnelsRequest(p, i)
    \/ TunnelList(p)
    \/ HealthRequest(p)
    \/ Return(p)

SpecProto == Init /\ [][NextProto]_vars

\* ================================================================ claims
Done(p) == pc[p] = "done"
\* a /verify that passed the field check and has read the ledger
VerifyRead(p) == req[p].op = "verify" /\ "ledger.get" \in loc[p].calls
\* the provisioned identity -> public key map
Authorized == AuthorizedClientsJson.value
\* the signature of the body verifies under the key provisioned for its identity
SignatureVerifies(body) ==
  /\ body.clientId \in DOMAIN Authorized
  /\ verifySignature(importPublicKey(Authorized[body.clientId]),
                     body.challenge, body.signature)
\* the entry read by p carries the challenge p presents
ReadMatches(p) ==
  \E e \in loc[p].stored : e.challenge = req[p].body.challenge
VerifySucceeded(p) ==
  Done(p) /\ req[p].op = "verify" /\ resp[p].status = 200
Rejected(p) == Done(p) /\ resp[p] = AuthenticationFailed

\* C1: of the /verify requests that read the same stored challenge of an
\* identity (concurrent requests presenting the same live challenge with a
\* valid signature), at most one answers success; the others answer 401.
C1_OneVerifyWins ==
  \A id \in ClientIds : \A p \in readers[id], q \in readers[id] :
    (p # q /\ VerifySucceeded(p) /\ req[p].body.clientId = id
           /\ req[q].op = "verify" /\ req[q].body.clientId = id /\ Done(q))
      => Rejected(q)

\* C2: single use.  A /verify whose ledger read happens after a successful
\* /verify consumed challenge c for the identity, with no /challenge store
\* since, and that presents c, finds no entry and answers 401.
C2_SingleUse ==
  /\ [](\A id \in ClientIds : spent[id] # None => ledger[id] = None)
  /\ [][\A p \in Procs :
          (pc[p] = "v_get" /\ pc'[p] # "v_get"
             /\ spent[req[p].body.clientId] = Some(req[p].body.challenge))
          => (pc'[p] = "done" /\ resp'[p] = AuthenticationFailed
                /\ loc'[p].stored = None)]_vars
C2_Witness ==
  \E p \in Procs :
    /\ Rejected(p) /\ VerifyRead(p) /\ loc[p].stored = None
    /\ spent[req[p].body.clientId] = Some(req[p].body.challenge)
    /\ SignatureVerifies(req[p].body)

\* C3: every /verify response is either the success response (token,
\* accessToken, secretData), produced only when the entry read from the
\* ledger carried the presented challenge, was unexpired when checked, the
\* identity is provisioned and the signature verified; or it is
\* BadRequest or AuthenticationFailed without those fields.
C3_SuccessOnlyIfVerified ==
  /\ [](\A p \in Procs : (Done(p) /\ req[p].op = "verify") =>
          \/ /\ resp[p].status = 200
             /\ resp[p].body.success
             /\ {"token", "accessToken", "secretData"} \subseteq DOMAIN resp[p].body
             /\ ReadMatches(p)
             /\ SignatureVerifies(req[p].body)
          \/ resp[p] \in {BadRequest, AuthenticationFailed})
  /\ [][\A p \in Procs :
          (pc[p] = "v_check" /\ pc'[p] = "v_delete")
          => now <= TheOne(loc[p].stored).expiresAt]_vars

\* C4: a /verify that presents the stored, unexpired challenge and fails
\* the signature check removes the challenge from the ledger when it is
\* rejected.
C4_ConsumedOnBadSignature ==
  [][\A p \in Procs :
       (pc[p] = "v_check" /\ pc'[p] = "done" /\ ReadMatches(p)
          /\ now <= TheOne(loc[p].stored).expiresAt
          /\ ~SignatureVerifies(req[p].body))
       => ledger'[req[p].body.clientId] = None]_vars

\* a /verify that read an entry carrying the challenge it presents, signed
\* validly, and whose entry is still unexpired, has succeeded
CorrectAttemptSucceeds(p) ==
  (Done(p) /\ VerifyRead(p) /\ ReadMatches(p) /\ SignatureVerifies(req[p].body)
     /\ now <= TheOne(loc[p].stored).expiresAt)
  => VerifySucceeded(p)

\* C5: a /verify presenting a value other than the stored, unexpired
\* challenge answers 401 and leaves the ledger as it was; a /verify that
\* presents the stored challenge with a valid signature before expiry
\* succeeds.
C5_MismatchLeavesEntry ==
  /\ [][\A p \in Procs :
          (pc[p] = "v_check" /\ pc'[p] # "v_check" /\ ~ReadMatches(p)
             /\ now <= TheOne(loc[p].stored).expiresAt)
          => (pc'[p] = "done" /\ resp'[p] = AuthenticationFailed
                /\ ledger' = ledger)]_vars
  /\ [](\A p \in Procs : CorrectAttemptSucceeds(p))
C5_Witness ==
  \E p \in Procs, q \in Procs :
    /\ Rejected(p) /\ VerifyRead(p) /\ loc[p].stored # None /\ ~ReadMatches(p)
    /\ "ledger.delete" \notin loc[p].calls
    /\ VerifySucceeded(q) /\ loc[q].stored = loc[p].stored
    /\ req[q].body.clientId = req[p].body.clientId

\* C6: a /verify that checks its entry after expiresAt has passed deletes
\* the identity's ledger entry and answers 401, whatever challenge and
\* signature it presents; an identity without an entry gets one only by a
\* /challenge store.
C6_ExpiredIsDeleted ==
  /\ [][\A p \in Procs :
          (pc[p] = "v_check" /\ pc'[p] # "v_check"
             /\ now > TheOne(loc[p].stored).expiresAt)
          => (pc'[p] = "v_expired" /\ ledger' = ledger)]_vars
  /\ [][\A p \in Procs :
          (pc[p] = "v_expired" /\ pc'[p] # "v_expired")
          => (pc'[p] = "done" /\ resp'[p] = AuthenticationFailed
                /\ ledger'[req[p].body.clientId] = None)]_vars
  /\ [][\A id \in ClientIds :
          (ledger[id] = None /\ ledger'[id] # None)
          => \E p \in Procs : /\ pc[p] = "ch_store" /\ pc'[p] = "done"
                              /\ req[p].body.clientId = id]_vars
C6_Witness ==
  \E p \in Procs, q \in Procs :
    /\ Rejected(p) /\ VerifyRead(p) /\ "ledger.delete" \in loc[p].calls
    /\ ReadMatches(p) /\ SignatureVerifies(req[p].body)
    /\ Rejected(q) /\ VerifyRead(q) /\ "ledger.delete" \in loc[q].calls
    /\ ~ReadMatches(q)
    /\ ledger[req[p].body.clientId] = None

\* C7: the ledger holds, per identity, the challenge stored last: a
\* /challenge store replaces any earlier entry by the one it returns, a
\* /verify succeeds only on the challenge it read from the ledger, and a
\* /verify presenting the stored challenge with a valid signature before
\* expiry succeeds.
C7_LatestChallengeOnly ==
  /\ [][\A p \in Procs :
          (pc[p] = "ch_store" /\ pc'[p] = "done")
          => /\ ledger'[req[p].body.clientId] = loc[p].issued
             /\ resp'[p].status = 200
             /\ Some(resp'[p].body) = ledger'[req[p].body.clientId]]_vars
  /\ [](\A p \in Procs : VerifySucceeded(p) => ReadMatches(p))
  /\ [](\A p \in Procs :
          (Done(p) /\ VerifyRead(p) /\ loc[p].stored # None /\ ~ReadMatches(p))
          => Rejected(p))
  /\ [](\A p \in Procs : CorrectAttemptSucceeds(p))
\* n1 was issued and then overwritten by n2; a validly signed /verify for
\* n1 was rejected against the n2 entry and one for n2 succeeded
C7_Witness ==
  \E p \in Procs, q \in Procs :
    /\ replaced["c1"] = {"n1"}
    /\ Rejected(p) /\ VerifyRead(p)
    /\ req[p].body = PlainVerify("c1", "n1", Sign("k1", "n1"))
    /\ \E e \in loc[p].stored : e.challenge = "n2"
    /\ VerifySucceeded(q) /\ loc[q].stored = loc[p].stored
    /\ req[q].body = PlainVerify("c1", "n2", Sign("k1", "n2"))

\* C8: /challenge answers 400 when clientId is missing and 401 when the
\* identity is not provisioned; in both cases it makes no storage call, and
\* no step of the validation changes the ledger.
C8_ChallengeRejections ==
  /\ [](\A p \in Procs :
          (Done(p) /\ req[p].op = "challenge" /\ req[p].body.parsed) =>
            /\ req[p].body.clientId = Missing
                 => (resp[p] = BadRequest /\ loc[p].calls = {})
            /\ (req[p].body.clientId # Missing
                  /\ req[p].body.clientId \notin DOMAIN Authorized)
                 => (resp[p] = AuthenticationFailed /\ loc[p].calls = {}))
  /\ [][\A p \in Procs :
          (pc[p] = "idle" /\ req'[p].op = "challenge") => ledger' = ledger]_vars
C8_Witness ==
  \E p \in Procs, q \in Procs :
    /\ Done(p) /\ req[p] = [body |-> ChallengeBody(Missing), op |-> "challenge"]
    /\ resp[p] = BadRequest
    /\ Done(q) /\ req[q] = [body |-> ChallengeBody("zz"), op |-> "challenge"]
    /\ resp[q] = AuthenticationFailed
    /\ ledger["c1"] # None

\* C9: a TunnelRecord is created or changed only by the registry store of a
\* /verify for that identity that passed the challenge and signature
\* checks, or by the store of a /tunnel/register that presented the token
\* stored in the record; the step changes no other identity's record.
C9_RecordWritesAuthorized ==
  [][tunnels' # tunnels =>
      \E p \in Procs :
        /\ pc'[p] # pc[p]
        /\ \A c \in ClientIds \ {req[p].body.clientId} : tunnels'[c] = tunnels[c]
        /\ \/ /\ pc[p] = "v_tunnel" /\ req[p].op = "verify"
              /\ ReadMatches(p) /\ SignatureVerifies(req[p].body)
              /\ "ledger.delete" \in loc[p].calls
           \/ /\ pc[p] = "r_store" /\ req[p].op = "register"
              /\ \E r \in tunnels[req[p].body.clientId] :
                   Lookup(r, "token") = Some(req[p].body.token)]_vars
\* a record created by one verified /verify and changed by a later one
C9_Witness ==
  \E p \in Procs :
    /\ VerifySucceeded(p) /\ req[p].body.tunnelUrl = "u2"
    /\ \E r \in tunnels["c1"] : r.tunnelUrl = "u2" /\ r.createdAt < r.updatedAt

\* C10: /tunnel/register for an identity without a record answers 401 and
\* stores nothing; an internal GET /tunnel/{identity} for an identity
\* without a record answers 404.
C10_RegisterNeedsRecord ==
  /\ [][\A p \in Procs :
          (pc[p] = "r_get" /\ pc'[p] # "r_get"
             /\ tunnels[req[p].body.clientId] = None)
          => (pc'[p] = "done" /\ resp'[p] = AuthenticationFailed
                /\ tunnels' = tunnels)]_vars
  /\ [][\A p \in Procs :
          (pc[p] = "g_get" /\ pc'[p] # "g_get"
             /\ tunnels[req[p].body.clientId] = None)
          => (pc'[p] = "done"
                /\ resp'[p] = errorResponse("Tunnel not found", 404))]_vars
  /\ [](\A p \in Procs :
          (Done(p) /\ req[p].op = "register" /\ resp[p] = AuthenticationFailed)
          => "tunnel.store" \notin loc[p].calls)
C10_Witness ==
  \E p \in Procs, q \in Procs :
    /\ Done(p) /\ req[p].op = "register"
    /\ req[p].body = RegisterBody("c1", "u1", "t1")
    /\ resp[p] = AuthenticationFailed
    /\ tunnels["c1"] = None
    /\ Done(q) /\ req[q].op = "getTunnel" /\ req[q].body.clientId = "c1"
    /\ req[q].body.internal
    /\ resp[q] = errorResponse("Tunnel not found", 404)

\* an identity's record as the registry get returns it
RecordOf(id) == TheOne(tunnels[id])
\* the token presented by p is the token held in the identity's record
TokenMatches(p) ==
  \E r \in tunnels[req[p].body.clientId] : Lookup(r, "token") = Some(req[p].body.token)

\* C11: /tunnel/register on an existing record with a token that is not the
\* token held in the record answers 401 and leaves the record as it was in
\* every field; it makes no registry store, so a later read shows the old
\* record.
C11_WrongTokenRejected ==
  /\ [][\A p \in Procs :
          (pc[p] = "r_get" /\ pc'[p] # "r_get"
             /\ tunnels[req[p].body.clientId] # None /\ ~TokenMatches(p))
          => (pc'[p] = "done" /\ resp'[p] = AuthenticationFailed
                /\ tunnels' = tunnels)]_vars
  /\ [](\A p \in Procs :
          (Done(p) /\ req[p].op = "register" /\ resp[p] = AuthenticationFailed)
          => "tunnel.store" \notin loc[p].calls)
\* a register rejected on the record a /verify created, and an internal
\* read returning that record
C11_Witness ==
  \E p \in Procs, q \in Procs :
    /\ Done(p) /\ req[p].op = "register"
    /\ req[p].body = RegisterBody("c1", "u2", "t2")
    /\ "tunnel.get" \in loc[p].calls
    /\ resp[p] = AuthenticationFailed
    /\ tunnels["c1"] # None /\ RecordOf("c1").tunnelUrl = "u1"
    /\ Done(q) /\ req[q].op = "getTunnel" /\ resp[q].status = 200
    /\ resp[q].body.data = RecordOf("c1")

\* the token presented by p is the token sent in the latest registry store
\* of the identity: the accessToken of the last /verify that registered it
PresentsBoundToken(p) ==
  /\ tunnels[req[p].body.clientId] # None
  /\ bound[req[p].body.clientId] = Some(req[p].body.token)

\* C12: /tunnel/register presenting the accessToken of the /verify that
\* last wrote the identity's record (no write in between) is accepted,
\* answers the updated record with tunnelUrl = the new url, and leaves the
\* record's token equal to that accessToken.
C12_ReRegistration ==
  /\ [][\A p \in Procs :
          (pc[p] = "r_get" /\ pc'[p] # "r_get" /\ PresentsBoundToken(p))
          => pc'[p] = "r_store"]_vars
  /\ [][\A p \in Procs :
          (pc[p] = "r_store" /\ pc'[p] # "r_store")
          => /\ resp'[p].status = 200
             /\ resp'[p].body.data.tunnelUrl = req[p].body.tunnelUrl
             /\ \E r \in tunnels'[req[p].body.clientId] :
                  /\ r = resp'[p].body.data
                  /\ Lookup(r, "token") = Some(req[p].body.token)]_vars

\* C13: the record of an identity holds the token sent in the latest
\* registry store for it; after a /verify carrying tunnelUrl that is the
\* accessToken of its response.
C13_RecordHoldsToken ==
  \A id \in ClientIds :
    tunnels[id] # None => Lookup(RecordOf(id), "token") = bound[id]

Rebound(id) ==
  tunnels[id] # None /\ RecordOf(id).createdAt < RecordOf(id).updatedAt

\* C15: once a later /verify carrying tunnelUrl has rewritten the record and
\* bound its accessToken t2, a /tunnel/register presenting another (earlier)
\* token is answered 401 and a /tunnel/register presenting t2 is accepted.
C15_LastTokenRotates ==
  [][\A p \in Procs :
       (pc[p] = "r_get" /\ pc'[p] # "r_get" /\ Rebound(req[p].body.clientId))
       => IF bound[req[p].body.clientId] = Some(req[p].body.token)
          THEN pc'[p] = "r_store"
          ELSE pc'[p] = "done" /\ resp'[p] = AuthenticationFailed]_vars

\* the answer of a registry get is the record of identity id with url u
ReturnsRecord(got, id, u) ==
  /\ got.ok /\ got.body.success
  /\ got.body.data.clientId = id /\ got.body.data.tunnelUrl = u

\* C16: a registry store for (identity, url, token) followed immediately by
\* a get of the identity returns a record with clientId = identity and
\* tunnelUrl = url, whatever the registry held before; a get for an
\* identity that was never stored answers "Tunnel not found" (404).
C16_StoreThenFetch ==
  /\ [](\A id \in ClientIds, u \in TunnelUrls, t \in Tokens :
          ReturnsRecord(
            TunnelStorageGet(
              TunnelStoragePut(tunnels,
                [clientId |-> id, token |-> t, tunnelUrl |-> u], now), id),
            id, u))
  /\ [][\A p \in Procs :
          (pc[p] \in {"v_tunnel", "r_store"} /\ pc'[p] # pc[p])
          => ReturnsRecord(TunnelStorageGet(tunnels', req[p].body.clientId),
                           req[p].body.clientId, req[p].body.tunnelUrl)]_vars
  /\ [](\A id \in ClientIds :
          bound[id] = None
          => TunnelStorageGet(tunnels, id) =
               [body |-> [error |-> "Tunnel not found", success |-> FALSE],
                ok |-> FALSE])
\* the record stored by a /verify that replaced an earlier url is returned
\* by an internal read; a read for a never-stored identity answered 404
C16_Witness ==
  \E p \in Procs, q \in Procs :
    /\ Done(p) /\ req[p].op = "getTunnel" /\ req[p].body.clientId = "c1"
    /\ resp[p].status = 200 /\ resp[p].body.data = RecordOf("c1")
    /\ Rebound("c1") /\ RecordOf("c1").tunnelUrl = "u2"
    /\ Done(q) /\ req[q].op = "getTunnel" /\ req[q].body.clientId = "zz"
    /\ bound["zz"] = None
    /\ resp[q] = errorResponse("Tunnel not found", 404)

\* C17: the store that creates an identity's record sets createdAt to the
\* time of the store, every later store keeps createdAt, and every store
\* sets updatedAt to its own time; so createdAt <= updatedAt in every
\* reachable state (the clock never goes back).
C17_CreatedAtKept ==
  /\ [][\A p \in Procs :
          (pc[p] \in {"v_tunnel", "r_store"} /\ pc'[p] # pc[p])
          => LET id == req[p].body.clientId
                 r == TheOne(tunnels'[id])
             IN /\ tunnels'[id] # None
                /\ r.updatedAt = now
                /\ r.createdAt = IF tunnels[id] = None THEN now
                                 ELSE RecordOf(id).createdAt]_vars
  /\ [][now' >= now]_vars
  /\ [](\A id \in ClientIds :
          tunnels[id] # None
          => /\ RecordOf(id).createdAt <= RecordOf(id).updatedAt
             /\ RecordOf(id).updatedAt <= now)
\* a record created at the start and rewritten, after the clock advanced,
\* by the /verify that has just answered
C17_Witness ==
  \E p \in Procs :
    /\ VerifySucceeded(p) /\ "tunnel.store" \in loc[p].calls
    /\ tunnels["c1"] # None
    /\ RecordOf("c1").createdAt = StartTime
    /\ RecordOf("c1").updatedAt = now /\ now > StartTime

\* C18: an internal GET /tunnel/{identity} answers 404 while no store was
\* ever made for the identity; the store of a /verify carrying tunnelUrl u
\* leaves a record with tunnelUrl = u, the registry changes in store steps
\* only, and an internal GET /tunnel/{identity} answers the record the
\* registry holds.
C18_InternalRead ==
  /\ [][\A p \in Procs :
          (pc[p] = "g_get" /\ pc'[p] # "g_get")
          => LET id == req[p].body.clientId
             IN /\ pc'[p] = "done"
                /\ IF bound[id] = None
                   THEN resp'[p] = errorResponse("Tunnel not found", 404)
                   ELSE resp'[p] =
                          jsonResponse([data |-> RecordOf(id), success |-> TRUE], 200)]_vars
  /\ [][\A p \in Procs :
          (pc[p] = "v_tunnel" /\ pc'[p] # "v_tunnel")
          => \E r \in tunnels'[req[p].body.clientId] :
               r.tunnelUrl = req[p].body.tunnelUrl]_vars
  /\ [][tunnels' # tunnels
          => \E p \in Procs : pc[p] \in {"v_tunnel", "r_store"} /\ pc'[p] # pc[p]]_vars
\* the first /verify for c1 registered u1 and an internal read returned it
C18_Witness ==
  \E p \in Procs, q \in Procs :
    /\ VerifySucceeded(p) /\ req[p].body.clientId = "c1"
    /\ req[p].body.tunnelUrl = "u1" /\ "tunnel.store" \in loc[p].calls
    /\ Done(q) /\ req[q].op = "getTunnel" /\ req[q].body.clientId = "c1"
    /\ req[q].body.internal /\ resp[q].status = 200
    /\ resp[q].body.data.tunnelUrl = "u1"
    /\ resp[q].body.data.createdAt = resp[q].body.data.updatedAt

\* p presents, validly signed and before its expiry, the challenge returned
\* by the latest /challenge of its identity, and no /verify has consumed a
\* challenge of the identity since that /challenge
PresentsLatest(p) ==
  LET id == req[p].body.clientId
  IN /\ latest[id] # None /\ spent[id] = None
     /\ TheOne(latest[id]).challenge = req[p].body.challenge
     /\ now <= TheOne(latest[id]).expiresAt
     /\ SignatureVerifies(req[p].body)

\* C19: a /verify that presents the challenge of the latest /challenge of a
\* provisioned identity with a valid signature before expiresAt, no other
\* /challenge and no successful /verify for the identity having come in
\* between, finds that challenge in the ledger and answers success:true
\* with a non-empty accessToken, whatever other requests are in flight.
C19_FreshChallengeSucceeds ==
  /\ [][\A p \in Procs :
          (pc[p] = "v_get" /\ pc'[p] # "v_get" /\ PresentsLatest(p))
          => (pc'[p] = "v_check"
                /\ loc'[p].stored = latest[req[p].body.clientId])]_vars
  /\ [](\A p \in Procs :
          (Done(p) /\ VerifyRead(p) /\ ReadMatches(p)
             /\ SignatureVerifies(req[p].body)
             /\ now <= TheOne(loc[p].stored).expiresAt)
          => /\ VerifySucceeded(p) /\ resp[p].body.success
             /\ resp[p].body.accessToken # Missing)

\* a /verify that passed the challenge and signature checks
PassedChecks(p) == req[p].op = "verify" /\ loc[p].token # None

\* C20: once a /verify has passed the challenge and signature checks, no
\* outcome of a best-effort step (webhook PATCH, registry store, webhook
\* repo list: ok, error answer or exception) changes the result: the step
\* leaves the ledger as it is and moves on, and the response is
\* success:true with token, accessToken and secretData.
C20_BestEffortSteps ==
  /\ [](\A p \in Procs :
          (Done(p) /\ PassedChecks(p))
          => /\ resp[p].status = 200 /\ resp[p].body.success
             /\ {"token", "accessToken", "secretData"} \subseteq DOMAIN resp[p].body
             /\ resp[p].body.token = TheOne(loc[p].token)
             /\ resp[p].body.accessToken \in Tokens
             /\ resp[p].body.secretData = extractSecrets(Env))
  /\ [][\A p \in Procs :
          (pc[p] \in {"v_webhook", "v_tunnel", "v_repos"} /\ pc'[p] # pc[p])
          => /\ ledger' = ledger
             /\ pc'[p] \in {"v_tunnel", "v_repos", "done"}
             /\ pc'[p] = "done" => resp'[p].status = 200]_vars
\* a /verify answered success although the PATCH, the registry store and
\* the repo list all failed; its challenge is gone and no record was stored
C20_Witness ==
  \E p \in Procs :
    /\ VerifySucceeded(p)
    /\ loc[p].failed = {"webhook.patch", "tunnel.store", "webhook.repos"}
    /\ "repoList" \notin DOMAIN resp[p].body
    /\ ledger[req[p].body.clientId] = None
    /\ tunnels[req[p].body.clientId] = None

\* C21: every authentication failure is answered by one and the same
\* response, 401 {success:false, error:'Authentication failed'}: a /verify
\* without ledger entry, with an expired, a mismatched or a badly signed
\* challenge, a /challenge for an identity that is not provisioned, and a
\* /tunnel/register without record or with a token the record does not hold.
C21_UniformFailure ==
  /\ [][\A p \in Procs :
          /\ (pc[p] = "v_get" /\ pc'[p] # "v_get"
                /\ ledger[req[p].body.clientId] = None)
             => (pc'[p] = "done" /\ resp'[p] = AuthenticationFailed)
          /\ (pc[p] = "v_check" /\ pc'[p] # "v_check"
                /\ now <= TheOne(loc[p].stored).expiresAt
                /\ (~ReadMatches(p) \/ ~SignatureVerifies(req[p].body)))
             => (pc'[p] = "done" /\ resp'[p] = AuthenticationFailed)
          /\ (pc[p] = "v_expired" /\ pc'[p] # "v_expired")
             => (pc'[p] = "done" /\ resp'[p] = AuthenticationFailed)
          /\ (pc[p] = "r_get" /\ pc'[p] # "r_get"
                /\ (tunnels[req[p].body.clientId] = None \/ ~TokenMatches(p)))
             => (pc'[p] = "done" /\ resp'[p] = AuthenticationFailed)]_vars
  /\ [](\A p \in Procs :
          (Done(p) /\ req[p].op = "challenge" /\ req[p].body.parsed
             /\ req[p].body.clientId # Missing
             /\ req[p].body.clientId \notin DOMAIN Authorized)
          => resp[p] = AuthenticationFailed)
  /\ [](\A p \in Procs :
          (Done(p) /\ req[p].op \in {"challenge", "verify", "register"}
             /\ resp[p].status = 401)
          => resp[p] = AuthenticationFailed)
\* two failures with different causes and the same response: a badly
\* signed /verify of the stored challenge, and a /tunnel/register with a
\* token on a record that exists
C21_Witness ==
  \E p \in Procs, q \in Procs :
    /\ Rejected(p) /\ VerifyRead(p) /\ ReadMatches(p)
    /\ ~SignatureVerifies(req[p].body) /\ "ledger.delete" \notin loc[p].calls
    /\ Done(q) /\ req[q].op = "register" /\ "tunnel.get" \in loc[q].calls
    /\ tunnels[req[q].body.clientId] # None
    /\ resp[q] = resp[p]

\* C22: GET /tunnel/{identity} from a caller trusted as internal answers
\* the record, or 404, without a token check; from an external caller it is
\* let through to the registry exactly when the bearer token of its
\* Authorization header is the token bound to the identity's record (the
\* accessToken of the /verify that registered it), and is refused otherwise.
C22_TunnelReadAccess ==
  /\ [][\A p \in Procs :
          (pc[p] = "idle" /\ req'[p].op = "getTunnel"
             /\ req'[p].body.clientId # Missing)
          => LET b == req'[p].body
             IN IF b.internal
                   \/ (tunnels[b.clientId] # None
                         /\ bound[b.clientId] = Some(b.authorization))
                THEN pc'[p] = "g_get"
                ELSE pc'[p] = "done" /\ resp'[p].status = 401]_vars
  /\ [][\A p \in Procs :
          (pc[p] = "g_get" /\ pc'[p] # "g_get")
          => resp'[p] = IF tunnels[req[p].body.clientId] = None
                        THEN errorResponse("Tunnel not found", 404)
                        ELSE jsonResponse(
                               [data |-> RecordOf(req[p].body.clientId),
                                success |-> TRUE], 200)]_vars

\* C23: GET /tunnels from a caller that is not trusted as internal and
\* presents no credential is not answered with the list of records.
C23_ListNeedsCredential ==
  \A p \in Procs :
    (Done(p) /\ req[p].op = "listTunnels" /\ ~req[p].body.internal)
    => (resp[p].status # 200 /\ "data" \notin DOMAIN resp[p].body)

\* the request p is handling in the step being taken
Handled(p) == IF pc[p] = "idle" THEN req'[p] ELSE req[p]

\* C24: every step of a /challenge, /verify or /tunnel/register for an
\* identity leaves the ledger entry and the TunnelRecord of every other
\* identity as they were, whatever else is in flight.
C24_Isolation ==
  [][\A p \in Procs :
       (pc'[p] # pc[p]
          /\ Handled(p).op \in {"challenge", "verify", "register"}
          /\ Handled(p).body.parsed)
       => \A other \in ClientIds \ {Handled(p).body.clientId} :
            ledger'[other] = ledger[other] /\ tunnels'[other] = tunnels[other]]_vars
\* c1 has completed /verify (its challenge consumed, its record written)
\* while c2's challenge is in the ledger and c2's record stands
C24_Witness ==
  \E p \in Procs :
    /\ VerifySucceeded(p) /\ req[p].body.clientId = "c1"
    /\ "tunnel.store" \in loc[p].calls
    /\ ledger["c1"] = None /\ ledger["c2"] # None
    /\ tunnels["c1"] # None /\ RecordOf("c1").tunnelUrl = "u1"
    /\ tunnels["c2"] # None /\ RecordOf("c2").tunnelUrl = "u2"

\* a required field of the request body is absent or empty
MissingField(r) ==
  r.body.parsed /\
  CASE r.op = "challenge" -> r.body.clientId = Missing
    [] r.op = "verify" -> \/ r.body.clientId = Missing
                          \/ r.body.challenge = Missing
                          \/ r.body.signature = NoSignature
    [] r.op = "register" -> \/ r.body.clientId = Missing
                            \/ r.body.tunnelUrl = Missing
                            \/ r.body.token = Missing
    [] OTHER -> FALSE

\* C25: a /challenge, /verify or /tunnel/register whose body cannot be
\* parsed or lacks a required field is answered 400 'Bad request'.
C25_MalformedIsBadRequest ==
  \A p \in Procs :
    (Done(p) /\ req[p].op \in {"challenge", "verify", "register"}
       /\ (~req[p].body.parsed \/ MissingField(req[p])))
    => resp[p] = BadRequest

\* signature fields a client may send for the model's keys and challenges
Signatures ==
  LET genuine == {SignBytes(k, b) :
                    k \in Keys,
                    b \in {TextEncode(n) : n \in Challenges}
                            \cup {Base64Decode(n) : n \in Challenges}}
  IN genuine \cup {Altered(s) : s \in genuine} \cup {BadBase64}

\* C26: verifySignature(importPublicKey(pem of k), challenge, signature) is
\* true exactly when the signature is the RSASSA-PKCS1-v1_5/SHA-256
\* signature by the private key of k over the UTF-8 bytes of the challenge
\* text (not the bytes it decodes to): false for another key, another
\* challenge or an altered signature; and /verify passes its signature
\* check on exactly those signatures.
C26_VerifySignature ==
  /\ [](\A k \in Keys, n \in Challenges, s \in Signatures :
          verifySignature(importPublicKey(Pem(k)), n, s)
            <=> s = SignBytes(k, TextEncode(n)))
  /\ [][\A p \in Procs :
          (pc[p] = "v_check" /\ pc'[p] # "v_check" /\ ReadMatches(p)
             /\ now <= TheOne(loc[p].stored).expiresAt)
          => (pc'[p] = "v_delete"
                <=> req[p].body.signature =
                      SignBytes(importPublicKey(Authorized[req[p].body.clientId]),
                                TextEncode(req[p].body.challenge)))]_vars
\* the stored challenge presented with a signature over its decoded bytes
\* was rejected, and with the signature over its text it was accepted
C26_Witness ==
  \E p \in Procs, q \in Procs :
    /\ Rejected(p) /\ VerifyRead(p) /\ ReadMatches(p)
    /\ req[p].body.signature = SignBytes("k1", Base64Decode("n1"))
    /\ "ledger.delete" \notin loc[p].calls
    /\ VerifySucceeded(q) /\ loc[q].stored = loc[p].stored
    /\ req[q].body.signature = SignBytes("k1", TextEncode("n1"))

\* the signature field does not decode, or decodes to bytes that are not a
\* signature made by any key
Undecodable(signature) == signature.kind \in {"garbage", "altered"}

\* C27: a signature field that cannot be decoded or checked makes
\* verifySignature answer false (it never throws), and the /verify that
\* presented it with the stored, unexpired challenge answers 401
\* 'Authentication failed', not 500; the ledger entry stays.
C27_DecodeFailureIsRejection ==
  /\ [](\A k \in Keys, n \in Challenges, s \in Signatures :
          /\ verifySignature(importPublicKey(Pem(k)), n, s) \in BOOLEAN
          /\ Undecodable(s) => ~verifySignature(importPublicKey(Pem(k)), n, s))
  /\ [][\A p \in Procs :
          (pc[p] = "v_check" /\ pc'[p] # "v_check" /\ ReadMatches(p)
             /\ now <= TheOne(loc[p].stored).expiresAt
             /\ Undecodable(req[p].body.signature))
          => (pc'[p] = "done" /\ resp'[p] = AuthenticationFailed
                /\ ledger' = ledger)]_vars
\* a /verify of the stored challenge whose signature is not base64 was
\* answered 401 and the challenge is still in the ledger
C27_Witness ==
  \E p \in Procs :
    /\ Rejected(p) /\ VerifyRead(p) /\ ReadMatches(p)
    /\ req[p].body.signature = BadBase64
    /\ "ledger.delete" \notin loc[p].calls
    /\ ledger[req[p].body.clientId] = loc[p].stored

\* C28: registry stores issued concurrently for one identity are applied
\* one after the other, each on the record the previous one left: every
\* store writes its own tunnelUrl and time and keeps the createdAt it
\* finds, so after any number of them createdAt is that of the first
\* applied store and tunnelUrl that of the last.
C28_StoresSerialized ==
  /\ [][\A p \in Procs :
          (pc[p] \in {"v_tunnel", "r_store"} /\ pc'[p] # pc[p])
          => LET id == req[p].body.clientId
             IN tunnels' =
                  [tunnels EXCEPT ![id] =
                     Some([clientId |-> id,
                           tunnelUrl |-> req[p].body.tunnelUrl,
                           updatedAt |-> now,
                           createdAt |-> IF tunnels[id] = None THEN now
                                         ELSE RecordOf(id).createdAt])]]_vars
  /\ [][\A id \in ClientIds :
          tunnels[id] # None
          => (tunnels'[id] # None
                /\ TheOne(tunnels'[id]).createdAt = RecordOf(id).createdAt)]_vars
\* two /verify requests that were in flight together (both read the same
\* ledger entry) have both stored, at different times, different urls: the
\* record has the createdAt of the first store and the url of the last
C28_Witness ==
  \E p \in Procs, q \in Procs :
    /\ p # q /\ readers["c1"] = {p, q}
    /\ VerifySucceeded(p) /\ "tunnel.store" \in loc[p].calls
    /\ VerifySucceeded(q) /\ "tunnel.store" \in loc[q].calls
    /\ req[p].body.tunnelUrl = "u1" /\ req[q].body.tunnelUrl = "u2"
    /\ RecordOf("c1").tunnelUrl = "u2"
    /\ RecordOf("c1").createdAt = StartTime
    /\ RecordOf("c1").updatedAt > StartTime

\* a success body, or an error of shape {success: false, error}
Terminal(response) ==
  \/ response.status = 200
  \/ /\ response.status \in {400, 401, 404, 500}
     /\ DOMAIN response.body = {"success", "error"}
     /\ response.body.success = FALSE

\* C29: when every awaited call returns or throws, every request the fetch
\* handler accepts ends with a response; the response is set once, when
\* the handler ends, and is a success body or {success: false, error};
\* an exception outside the best-effort steps is answered with
\* 500 'Internal error'.
C29_Terminates ==
  /\ \A p \in Procs : (pc[p] # "idle") ~> Done(p)
  /\ [][\A p \in Procs :
          /\ (pc[p] # "done" /\ pc'[p] = "done")
             => (resp[p] = NoResponse /\ Terminal(resp'[p]))
          /\ (resp'[p] # resp[p]) => (pc[p] # "done" /\ pc'[p] = "done")
          /\ (pc[p] \in Unguarded /\ pc'[p] = "done" /\ loc'[p] = loc[p]
              /\ pc[p] # "v_check")
             => resp'[p] = InternalError]_vars
\* a /challenge was answered 200, and the /verify for it 500 because a
\* call after its ledger read threw
C29_Witness ==
  \E p \in Procs, q \in Procs :
    /\ p # q
    /\ Done(q) /\ req[q].op = "challenge" /\ resp[q].status = 200
    /\ Done(p) /\ req[p].op = "verify" /\ resp[p] = InternalError
    /\ "ledger.get" \in loc[p].calls /\ "ledger.delete" \notin loc[p].calls

\* C30: /challenge stores and returns expiresAt = the clock value it read
\* + 300000; /verify takes the expiry branch exactly when the clock is past
\* expiresAt: at now = expiresAt a matching, well-signed attempt goes on to
\* success, at now = expiresAt + 1 the attempt is answered 401 and the
\* ledger entry of the identity is deleted.
C30_ExpiryBoundary ==
  [][\A p \in Procs :
       LET id == req[p].body.clientId
       IN /\ (pc[p] = "idle" /\ pc'[p] = "ch_store")
             => TheOne(loc'[p].issued).expiresAt = now + 300000
          /\ (pc[p] = "ch_store" /\ pc'[p] = "done")
             => /\ ledger'[id] = loc[p].issued
                /\ resp'[p].body.expiresAt = TheOne(loc[p].issued).expiresAt
          /\ (pc[p] = "v_check" /\ pc'[p] # "v_check")
             => LET e == TheOne(loc[p].stored)
                IN /\ (pc'[p] = "v_expired") <=> (now > e.expiresAt)
                   /\ (now <= e.expiresAt /\ ReadMatches(p)
                       /\ SignatureVerifies(req[p].body))
                      => pc'[p] = "v_delete"
          /\ (pc[p] = "v_expired" /\ pc'[p] # "v_expired")
             => (ledger'[id] = None /\ resp'[p] = AuthenticationFailed)
          /\ (pc[p] = "v_delete" /\ pc'[p] = "done")
             => resp'[p].status = 200]_vars
\* the entry expiring at the first instant was read by two attempts: one
\* checked at that instant and succeeded, the other checked one
\* millisecond later, was answered 401 and deleted the entry
C30_Witness ==
  \E p \in Procs, q \in Procs :
    /\ p # q
    /\ VerifySucceeded(p) /\ loc[p].stored = Some(ExpiringEntry)
    /\ Rejected(q) /\ loc[q].stored = Some(ExpiringEntry)
    /\ "ledger.delete" \in loc[q].calls
    /\ now = ExpiringEntry.expiresAt + 1
    /\ ledger["c1"] = None

\* C31: every token generateJWT produces carries the clientId it was
\* called with and has exp = iat + 3600, at whatever clock values its
\* payload was built.
C31_ExpIsIatPlusHour ==
  \A p \in Procs :
    (req[p].op = "generateJWT" /\ Done(p))
    => LET token == TheOne(loc[p].token)
       IN /\ token.clientId = req[p].body.clientId
          /\ token.exp = token.iat + 3600

\* C32: a /verify or /tunnel/register answered 400 for a missing field has
\* made no call to the ledger, the registry or the webhook worker, and the
\* step that answers it leaves the ledger and the registry as they were.
C32_BadRequestTouchesNothing ==
  /\ [](\A p \in Procs :
          (Done(p) /\ req[p].op \in {"verify", "register"} /\ resp[p] = BadRequest)
          => (loc[p].calls = {} /\ loc[p].failed = {}))
  /\ [][\A p \in Procs :
          (pc[p] = "idle" /\ req'[p].op \in {"verify", "register"}
             /\ MissingField(req'[p]))
          => (pc'[p] = "done" /\ resp'[p] = BadRequest
                /\ ledger' = ledger /\ tunnels' = tunnels)]_vars
\* with a challenge in the ledger and a record in the registry, a /verify
\* without signature and a /tunnel/register without tunnelUrl got 400
C32_Witness ==
  \E p \in Procs, q \in Procs :
    /\ Done(p) /\ req[p].op = "verify" /\ MissingField(req[p])
    /\ resp[p] = BadRequest
    /\ Done(q) /\ req[q].op = "register" /\ MissingField(req[q])
    /\ resp[q] = BadRequest
    /\ ledger["c1"] # None /\ tunnels["c1"] # None

\* C33: GET /tunnels answers with the records the registry holds when it
\* is listed, one for each identity that has a record and nothing else,
\* and count is the number of records in the answer.
C33_ListIsRegistry ==
  [][\A p \in Procs :
       (pc[p] = "l_list" /\ pc'[p] = "done")
       => LET held == {c \in ClientIds : tunnels[c] # None}
          IN /\ resp'[p].status = 200
             /\ resp'[p].body.data = {RecordOf(c) : c \in held}
             /\ \A c \in held :
                  Cardinality({r \in resp'[p].body.data : r.clientId = c}) = 1
             /\ resp'[p].body.count = Cardinality(held)
             /\ resp'[p].body.count = Cardinality(resp'[p].body.data)]_vars
\* a list answered with the records of c1 and c2, count 2, while "zz" has none
C33_Witness ==
  \E p \in Procs :
    /\ Done(p) /\ req[p].op = "listTunnels"
    /\ tunnels["c1"] # None /\ tunnels["c2"] # None /\ tunnels["zz"] = None
    /\ resp[p].body.data = {RecordOf("c1"), RecordOf("c2")}
    /\ resp[p].body.count = 2

\* configurations: the deployed bindings and every selection of them
Envs == {[k \in keys |-> Env[k]] : keys \in SUBSET DOMAIN Env}

\* C34: the secret bundle holds exactly the string-valued bindings of the
\* configuration other than AUTHORIZED_CLIENTS and CHALLENGE_STORAGE, each
\* with its value as configured, and no binding that is not a string; a
\* successful /verify returns the bundle of the deployed configuration.
C34_SecretBundle ==
  /\ \A env \in Envs :
       LET secrets == extractSecrets(env)
       IN /\ DOMAIN secrets =
               {k \in DOMAIN env : env[k].isString}
                 \ {"AUTHORIZED_CLIENTS", "CHALLENGE_STORAGE"}
          /\ \A k \in DOMAIN secrets : secrets[k] = env[k].value
  /\ \A p \in Procs :
       VerifySucceeded(p)
       => resp[p].body.secretData =
            ("API_KEY" :> "apikey" @@ "SECRET_DATA" :> "s3cret")
\* a successful /verify whose secretData has the two string secrets and
\* neither the client map nor a storage or service binding
C34_Witness ==
  \E p \in Procs :
    /\ VerifySucceeded(p)
    /\ DOMAIN resp[p].body.secretData = {"API_KEY", "SECRET_DATA"}
    /\ resp[p].body.secretData["SECRET_DATA"] = Env.SECRET_DATA.value
    /\ DOMAIN Env \ DOMAIN resp[p].body.secretData
         = {"AUTHORIZED_CLIENTS", "CHALLENGE_STORAGE", "TUNNEL_STORAGE",
            "WEBHOOK_WORKER"}

\* C35: the ledger delete of a /verify (on its expiry branch or after its
\* signature check) removes only the entry that /verify read: it never
\* removes an entry a /challenge stored after the read.
C35_DeletesOnlyWhatItRead ==
  [][\A p \in Procs :
       LET id == req[p].body.clientId
       IN (pc[p] \in {"v_expired", "v_delete"} /\ pc'[p] # pc[p]
             /\ ledger'[id] # ledger[id])
          => ledger[id] = loc[p].stored]_vars

\* C36: when /challenge answers 200 with {challenge, expiresAt}, the ledger
\* holds that challenge and expiresAt for the identity as the store call
\* returns; when the store call fails, the answer carries no challenge.
C36_ChallengeIsStored ==
  [][\A p \in Procs :
       (pc[p] = "ch_store" /\ pc'[p] = "done")
       => LET id == req[p].body.clientId
          IN /\ resp'[p].status = 200
                => ledger'[id] = Some([challenge |-> resp'[p].body.challenge,
                                       expiresAt |-> resp'[p].body.expiresAt])
             /\ "ledger.store" \in loc'[p].failed
                => (resp'[p].status # 200
                      /\ "challenge" \notin DOMAIN resp'[p].body)]_vars

\* C37: no step of a /verify without tunnelUrl changes the registry, and
\* such a /verify makes no registry store, so its accessToken is in no
\* record; a /tunnel/register goes on to its store only with the token
\* held in the identity's record.
C37_NoTunnelUrlNoRecord ==
  /\ [][\A p \in Procs :
          (pc'[p] # pc[p] /\ Handled(p).op = "verify" /\ Handled(p).body.parsed
             /\ Handled(p).body.tunnelUrl = Missing)
          => tunnels' = tunnels]_vars
  /\ [](\A p \in Procs :
          (VerifySucceeded(p) /\ req[p].body.tunnelUrl = Missing)
          => "tunnel.store" \notin loc[p].calls)
  /\ [][\A p \in Procs :
          (pc[p] = "r_get" /\ pc'[p] = "r_store") => TokenMatches(p)]_vars
\* a /verify without tunnelUrl succeeded with accessToken t1 while c1 has
\* a record from an earlier /verify; the /tunnel/register presenting t1 was
\* answered 401 after reading the registry, which still has the old url
C37_Witness ==
  \E p \in Procs, q \in Procs :
    /\ VerifySucceeded(p) /\ req[p].body.tunnelUrl = Missing
    /\ resp[p].body.accessToken = "t1"
    /\ Done(q) /\ req[q].op = "register"
    /\ req[q].body = RegisterBody("c1", "u1", "t1")
    /\ "tunnel.get" \in loc[q].calls /\ resp[q] = AuthenticationFailed
    /\ tunnels["c1"] # None /\ RecordOf("c1").tunnelUrl = "u2"

\* C38: no step removes a TunnelRecord; an internal GET /tunnel/{clientId}
\* for an identity that has a record answers with the record, never "Tunnel
\* not found"; the steps of GET /health, GET /tunnel/{clientId} and
\* GET /tunnels change neither the registry nor the ledger.
C38_RecordsStay ==
  /\ [][\A id \in ClientIds : tunnels[id] # None => tunnels'[id] # None]_vars
  /\ [][\A p \in Procs :
          (pc[p] = "g_get" /\ pc'[p] = "done"
             /\ tunnels[req[p].body.clientId] # None)
          => /\ resp'[p].status = 200
             /\ resp'[p].body.data = RecordOf(req[p].body.clientId)]_vars
  /\ [][\A p \in Procs :
          (pc'[p] # pc[p]
             /\ Handled(p).op \in {"health", "getTunnel", "listTunnels"})
          => (tunnels' = tunnels /\ ledger' = ledger)]_vars
\* c1's record, written and later rewritten, is returned by an internal
\* read after a list was answered, with c1's challenge still in the ledger
C38_Witness ==
  \E p \in Procs, q \in Procs :
    /\ p # q
    /\ Done(p) /\ req[p].op = "listTunnels" /\ resp[p].body.count = 1
    /\ Done(q) /\ req[q].op = "getTunnel" /\ req[q].body.clientId = "c1"
    /\ resp[q].status = 200 /\ resp[q].body.data = RecordOf("c1")
    /\ RecordOf("c1").updatedAt > RecordOf("c1").createdAt
    /\ ledger["c1"] # None

\* C39: an identity has a ledger entry only if it is in the provisioned
\* identity -> public key map.
C39_LedgerOnlyForProvisioned ==
  \A id \in ClientIds : ledger[id] # None => id \in DOMAIN Authorized

====
